---- MODULE Spec2Model ----
(***************************************************************************)
(* Model of main.py: the hashtag fetcher.  get_posts pages through the     *)
(* upstream endpoint, get_post_from_node flattens every raw node, and      *)
(* export_posts writes the accumulated records to a '|'-delimited file.    *)
(*                                                                         *)
(* Python values are modelled as tagged records: None, PyStr(s), PyInt(i). *)
(* A JSON object (dict) is a function from its keys, a JSON array a        *)
(* sequence.  A post (the dict literal of get_post_from_node, whose key    *)
(* order the exporter relies on) is a sequence of <<key, value>> pairs.    *)
(* A datetime is a number of seconds since the epoch.  A formatted date    *)
(* string is the sequence of its six numeric fields; "" is <<>>.           *)
(***************************************************************************)
EXTENDS Integers, Sequences, FiniteSets, TLC

VARIABLES
    pc,                        \* position of main: "while", "returned", "exited", "raised"
    min_datetime,              \* args.min_date, midnight of the given day
    now,                       \* what datetime.now() read when get_posts started
    all_posts,                 \* get_posts: all_posts
    end_cursor,                \* get_posts: end_cursor
    earliest_datetime_so_far,  \* get_posts: earliest_datetime_so_far
    requests,                  \* number of requests.get calls issued
    sleeps,                    \* number of time.sleep(wait) calls made
    last_url,                  \* query of the most recent request
    pages,                     \* upstream: the responses given so far, in order
    stop_cause,                \* why the fetch loop ended ("" while it runs)
    file                       \* the file at output_path

vars == <<pc, min_datetime, now, all_posts, end_cursor, earliest_datetime_so_far,
          requests, sleeps, last_url, pages, stop_cause, file>>

----------------------------------------------------------------------------
(* Bounds of the model *)

\* requests one run may issue
MaxRequests == 3
\* raw nodes the upstream hands out over one run
MaxNodes == 2

----------------------------------------------------------------------------
(* Python values *)

None == [t |-> "None"]
PyStr(s) == [t |-> "str", v |-> s]
PyInt(i) == [t |-> "int", v |-> i]
EmptyDict == <<>>

\* dict.get(key, default)
Get(d, k, default) == IF k \in DOMAIN d THEN d[k] ELSE default

\* truth value of a cursor in `if end_cursor:` (None and "" are falsy)
Truthy(c) == IF c.t = "None" THEN FALSE ELSE c.v # ""

\* isinstance(x, str)
IsStr(x) == x.t = "str"

\* an exception raised by an expression
Raise(exc) == [t |-> "raise", exc |-> exc]
Raises(x) == x.t = "raise"

----------------------------------------------------------------------------
(* Dates.  The model's timestamps lie in January 1970, where the date part *)
(* of the format is year 1970, month 1, day 1 + whole days.                *)

SecondsPerDay == 86400
SecondsPerHour == 3600
SecondsPerMinute == 60

\* datetime.utcfromtimestamp(ts).strftime(DATETIME_FORMAT)
strftime(ts) ==
    <<1970, 1, 1 + (ts \div SecondsPerDay),
      (ts % SecondsPerDay) \div SecondsPerHour,
      (ts % SecondsPerHour) \div SecondsPerMinute,
      ts % SecondsPerMinute>>

convert_timestamp_to_string(ts) ==
    IF ts.t = "None" THEN PyStr(<<>>) ELSE PyStr(strftime(ts.v))

\* datetime.datetime.strptime(s, DATETIME_FORMAT): "" does not match the format
strptime(s) ==
    IF Len(s) # 6
    THEN Raise("ValueError")
    ELSE PyInt((s[3] - 1) * SecondsPerDay + s[4] * SecondsPerHour
             + s[5] * SecondsPerMinute + s[6])

----------------------------------------------------------------------------
(* Record Extractor *)

\* a post: the dict literal of get_post_from_node, keys in insertion order
Item(post, k) == post[CHOOSE i \in 1..Len(post) : post[i][1] = k][2]
keys(post) == [i \in 1..Len(post) |-> post[i][1]]
values(post) == [i \in 1..Len(post) |-> post[i][2]]

\* node.get("edge_media_to_caption", {}).get("edges", [{}])
caption_edges(node) ==
    Get(Get(node, "edge_media_to_caption", EmptyDict), "edges", <<EmptyDict>>)

\* caption_edges(node)[0].get("node", {}).get("text", None);
\* indexing an empty list raises IndexError
caption_of(node) ==
    IF Len(caption_edges(node)) = 0
    THEN Raise("IndexError")
    ELSE Get(Get(caption_edges(node)[1], "node", EmptyDict), "text", None)

\* the result of get_post_from_node: the dict it returns, or the exception
\* that leaves it
get_post_from_node(node) ==
    LET post_id == Get(node, "id", None)
        owner_id == Get(Get(node, "owner", EmptyDict), "id", None)
        created_time ==
            convert_timestamp_to_string(Get(node, "taken_at_timestamp", None))
        typename == Get(node, "__typename", None)
        comment_count ==
            Get(Get(node, "edge_media_to_comment", EmptyDict), "count", None)
        like_count == Get(Get(node, "edge_liked_by", EmptyDict), "count", None)
        video_view_count == Get(node, "video_view_count", None)
        shortcode == Get(node, "shortcode", None)
        caption == caption_of(node)
    IN  IF Raises(caption)
        THEN [t |-> "raise", exc |-> caption.exc, v |-> <<>>]
        ELSE [t |-> "dict", v |->
             << <<"id", post_id>>,
                <<"owner_id", owner_id>>,
                <<"created_time", created_time>>,
                <<"typename", typename>>,
                <<"comment_count", comment_count>>,
                <<"like_count", like_count>>,
                <<"video_view_count", video_view_count>>,
                <<"shortcode", shortcode>>,
                <<"caption", caption>> >>]

----------------------------------------------------------------------------
(* The upstream: raw nodes and responses *)

\* the node of the specification's example, with a given timestamp
SparseNode(ts) ==
    ("id" :> PyStr("1")) @@ ("owner" :> ("id" :> PyStr("9")))
    @@ ("taken_at_timestamp" :> PyInt(ts))
    @@ ("__typename" :> PyStr("GraphImage")) @@ ("shortcode" :> PyStr("abc"))

\* a node with every expected field
FullNode(ts) ==
    SparseNode(ts)
    @@ ("edge_media_to_comment" :> ("count" :> PyInt(2)))
    @@ ("edge_liked_by" :> ("count" :> PyInt(7)))
    @@ ("video_view_count" :> PyInt(0))
    @@ ("edge_media_to_caption" :>
            ("edges" :> << ("node" :> ("text" :> PyStr("hi"))) >>))

\* a node without taken_at_timestamp
UndatedNode == ("id" :> PyStr("2")) @@ ("owner" :> EmptyDict)

\* a node whose caption edge list is present and empty
UncaptionedNode(ts) ==
    ("id" :> PyStr("3")) @@ ("taken_at_timestamp" :> PyInt(ts))
    @@ ("edge_media_to_caption" :> ("edges" :> <<>>))

Nodes ==
    {SparseNode(43261), SparseNode(86400), FullNode(129783),
     UndatedNode, UncaptionedNode(129783)}

\* end_cursor values of page_info
Cursors == {None, PyStr(""), PyStr("A"), PyStr("B")}

\* lists of at most n raw nodes
RECURSIVE NodeLists(_)
NodeLists(n) ==
    IF n = 0
    THEN {<<>>}
    ELSE NodeLists(n - 1)
         \cup {Append(l, x) : l \in {m \in NodeLists(n - 1) : Len(m) = n - 1},
                              x \in Nodes}

\* what one request can come back with:
\*   "error":    requests.get or res.json raises
\*   "no_path":  the JSON lacks graphql.hashtag.edge_hashtag_to_media.page_info
\*   "no_edges": page_info.end_cursor is there, the edges key is not
\*   "page":     the expected shape
Responses(n) ==
    {[kind |-> "error"], [kind |-> "no_path"]}
    \cup {[kind |-> "no_edges", end_cursor |-> c] : c \in Cursors}
    \cup {[kind |-> "page", end_cursor |-> c, edges |-> [i \in 1..Len(l) |-> ("node" :> l[i])]]
            : c \in Cursors, l \in NodeLists(n)}

\* raw nodes handed out by the responses so far
RECURSIVE Delivered(_)
Delivered(ps) ==
    IF ps = <<>>
    THEN 0
    ELSE Delivered(SubSeq(ps, 1, Len(ps) - 1))
         + (IF ps[Len(ps)].kind = "page" THEN Len(ps[Len(ps)].edges) ELSE 0)

----------------------------------------------------------------------------
(* Fetch Loop: get_posts *)

\* the days min-date is drawn from, and the clock readings of datetime.now()
MinDates == {0, SecondsPerDay}
Nows == {43261, 129783}

\* the output file before the run: absent, or left by an earlier run
NoFile == [exists |-> FALSE, rows |-> <<>>]
OldFile == [exists |-> TRUE, rows |-> << <<"id">>, <<"0">> >>]

Init ==
    /\ pc = "while"
    /\ min_datetime \in MinDates
    /\ all_posts = <<>>
    /\ end_cursor = PyStr("")
    /\ now \in Nows
    /\ earliest_datetime_so_far = now
    /\ requests = 0
    /\ sleeps = 0
    /\ last_url = [has_max_id |-> FALSE, max_id |-> None]
    /\ pages = <<>>
    /\ stop_cause = ""
    /\ file \in {NoFile, OldFile}

\* a variant that tests the condition after the body (do ... while)
LoopCond_after_body == requests = 0 \/ min_datetime < earliest_datetime_so_far

\* while min_datetime < earliest_datetime_so_far
LoopCond == min_datetime < earliest_datetime_so_far

\* url = endpoint, plus "&max_id=" + end_cursor if end_cursor
build_url(cursor) ==
    IF Truthy(cursor)
    THEN [has_max_id |-> TRUE, max_id |-> cursor]
    ELSE [has_max_id |-> FALSE, max_id |-> None]

\* [get_post_from_node(edge.get("node")) for edge in edges], when no call raises
extract(edges) == [i \in 1..Len(edges) |-> get_post_from_node(edges[i]["node"]).v]

\* the try block raises: the request, the navigation or an extraction
TryRaises(resp) ==
    \/ resp.kind \in {"error", "no_path", "no_edges"}
    \/ /\ resp.kind = "page"
       /\ \E i \in 1..Len(resp.edges) :
              Raises(get_post_from_node(resp.edges[i]["node"]))

\* end_cursor is assigned before edges is read
CursorAfter(resp, cursor) ==
    IF resp.kind \in {"no_edges", "page"} THEN resp.end_cursor ELSE cursor

\* [strptime(post["created_time"], DATETIME_FORMAT) for post in posts
\*  if isinstance(post["created_time"], str)]
parsed_times(posts) ==
    LET kept == SelectSeq(posts, LAMBDA post : IsStr(Item(post, "created_time")))
    IN  [i \in 1..Len(kept) |-> strptime(Item(kept[i], "created_time").v)]

\* a variant that takes the first element of that list instead of its min
earliest_of_first(posts) ==
    LET times == parsed_times(posts)
    IN  IF \E i \in 1..Len(times) : Raises(times[i])
        THEN Raise("ValueError")
        ELSE IF Len(times) = 0
        THEN Raise("ValueError")
        ELSE times[1]

\* min(...) of that list; building the list raises when one strptime does
earliest_of(posts) ==
    LET times == parsed_times(posts)
    IN  IF \E i \in 1..Len(times) : Raises(times[i])
        THEN Raise("ValueError")
        ELSE IF Len(times) = 0
        THEN Raise("ValueError")
        ELSE PyInt(CHOOSE m \in {times[i].v : i \in 1..Len(times)} :
                     \A i \in 1..Len(times) : m <= times[i].v)

\* the sleep, the request and its response: common to every iteration
Fetch(resp) ==
    /\ pc = "while"
    /\ LoopCond
    /\ requests < MaxRequests
    /\ sleeps' = IF Truthy(end_cursor) THEN sleeps + 1 ELSE sleeps
    /\ last_url' = build_url(end_cursor)
    /\ requests' = requests + 1
    /\ pages' = Append(pages, resp)
    /\ UNCHANGED <<min_datetime, now, file>>

\* a variant that goes back to the top of the loop instead of breaking
loop_exception_retry(resp) ==
    /\ Fetch(resp)
    /\ TryRaises(resp)
    /\ end_cursor' = CursorAfter(resp, end_cursor)
    /\ UNCHANGED <<pc, stop_cause, all_posts, earliest_datetime_so_far>>

\* except Exception: print, break; then return all_posts
loop_exception(resp) ==
    /\ Fetch(resp)
    /\ TryRaises(resp)
    /\ end_cursor' = CursorAfter(resp, end_cursor)
    /\ pc' = "returned"
    /\ stop_cause' = "exception"
    /\ UNCHANGED <<all_posts, earliest_datetime_so_far>>

\* if len(posts) == 0: break
loop_no_posts(resp) ==
    /\ Fetch(resp)
    /\ ~TryRaises(resp)
    /\ Len(resp.edges) = 0
    /\ end_cursor' = resp.end_cursor
    /\ pc' = "returned"
    /\ stop_cause' = "no_posts"
    /\ UNCHANGED <<all_posts, earliest_datetime_so_far>>

\* all_posts += posts; earliest_datetime_so_far = min([...])
loop_append(resp) ==
    /\ Fetch(resp)
    /\ ~TryRaises(resp)
    /\ Len(resp.edges) > 0
    /\ ~Raises(earliest_of(extract(resp.edges)))
    /\ end_cursor' = resp.end_cursor
    /\ all_posts' = all_posts \o extract(resp.edges)
    /\ earliest_datetime_so_far' = earliest_of(extract(resp.edges)).v
    /\ UNCHANGED <<pc, stop_cause>>

\* all_posts += posts; the min([...]) raises outside the try block, and
\* nothing above main catches it
loop_uncaught(resp) ==
    /\ Fetch(resp)
    /\ ~TryRaises(resp)
    /\ Len(resp.edges) > 0
    /\ Raises(earliest_of(extract(resp.edges)))
    /\ end_cursor' = resp.end_cursor
    /\ all_posts' = all_posts \o extract(resp.edges)
    /\ pc' = "raised"
    /\ stop_cause' = "uncaught"
    /\ UNCHANGED earliest_datetime_so_far

\* the while condition is false: print, return all_posts
loop_exit ==
    /\ pc = "while"
    /\ ~LoopCond
    /\ pc' = "returned"
    /\ stop_cause' = "date"
    /\ UNCHANGED <<min_datetime, now, all_posts, end_cursor, earliest_datetime_so_far,
                   requests, sleeps, last_url, pages, file>>

----------------------------------------------------------------------------
(* Exporter: export_posts *)

\* csv.writer renders None as the empty field and anything else by str()
csv_field(x) ==
    IF x.t = "None" THEN ""
    ELSE IF x.t = "int" THEN ToString(x.v)
    ELSE x.v

\* writer.writerow(column_names), then writer.writerow(list(m.values())) per post
csv_rows(posts) ==
    <<keys(posts[1])>>
    \o [i \in 1..Len(posts) |->
          [j \in 1..Len(posts[i]) |-> csv_field(values(posts[i])[j])]]

\* a variant that opens the path with mode "a"
open_a(f) == [exists |-> TRUE, rows |-> f.rows]

\* open(output_path, "w") truncates whatever the path held
open_w(f) == [exists |-> TRUE, rows |-> <<>>]

export_posts ==
    /\ pc = "returned"
    /\ file' = IF Len(all_posts) > 0
               THEN [open_w(file) EXCEPT !.rows = @ \o csv_rows(all_posts)]
               ELSE file
    /\ pc' = "exited"
    /\ UNCHANGED <<min_datetime, now, all_posts, end_cursor, earliest_datetime_so_far,
                   requests, sleeps, last_url, pages, stop_cause>>

----------------------------------------------------------------------------

Next ==
    \/ \E resp \in Responses(MaxNodes - Delivered(pages)) : loop_exception(resp)
    \/ \E resp \in Responses(MaxNodes - Delivered(pages)) : loop_no_posts(resp)
    \/ \E resp \in Responses(MaxNodes - Delivered(pages)) : loop_append(resp)
    \/ \E resp \in Responses(MaxNodes - Delivered(pages)) : loop_uncaught(resp)
    \/ loop_exit
    \/ export_posts

Spec == Init /\ [][Next]_vars

----------------------------------------------------------------------------
(* Properties *)

LastPage == pages[Len(pages)]
Returned == pc \in {"returned", "exited"}
FailKinds == {"error", "no_path", "no_edges"}

\* the records of the pages ps, page after page, node after node
RECURSIVE ExtractAll(_)
ExtractAll(ps) ==
    IF ps = <<>>
    THEN <<>>
    ELSE ExtractAll(SubSeq(ps, 1, Len(ps) - 1)) \o extract(ps[Len(ps)].edges)

\* the least created_time among the dated records of posts
MinTime(posts) ==
    LET ts == {strptime(Item(posts[i], "created_time").v).v :
                 i \in {j \in 1..Len(posts) : Len(Item(posts[j], "created_time").v) = 6}}
    IN  CHOOSE m \in ts : \A x \in ts : m <= x

Dated(post) == Len(Item(post, "created_time").v) = 6

PostKeys ==
    <<"id", "owner_id", "created_time", "typename", "comment_count",
      "like_count", "video_view_count", "shortcode", "caption">>

\* C1: once the request or the JSON navigation of page k fails, that request
\* is the last one, get_posts has returned (no retry), its result is the
\* records of pages 1..k-1 in arrival order, and the exporter wrote exactly
\* those records.
C1_FailureStopsAndKeeps ==
    \A k \in 1..Len(pages) :
        pages[k].kind \in FailKinds =>
            /\ k = Len(pages)
            /\ requests = k
            /\ Returned
            /\ all_posts = ExtractAll(SubSeq(pages, 1, k - 1))
            /\ (pc = "exited" /\ Len(all_posts) > 0 =>
                    Len(file.rows) = Len(all_posts) + 1)

C1_Witness ==
    /\ pc = "exited"
    /\ Len(pages) = 2
    /\ pages[2].kind = "error"
    /\ Len(all_posts) > 0
    /\ Len(file.rows) = Len(all_posts) + 1

\* C2 as stated: whenever the loop guard is evaluated after a batch was
\* appended, earliest_datetime_so_far is the least created_time of the whole
\* accumulated result set.
C2_GlobalMinimum ==
    (pc = "while" /\ requests > 0) =>
        earliest_datetime_so_far = MinTime(all_posts)

\* C2 as amended: whenever the loop guard is evaluated after a batch was
\* appended, earliest_datetime_so_far is the least created_time of the latest
\* page alone, and every page after which another request was issued had
\* min_datetime strictly earlier than its own least created_time.
C2_LatestPageMinimum ==
    /\ (pc = "while" /\ requests > 0) =>
           earliest_datetime_so_far = MinTime(extract(LastPage.edges))
    /\ \A k \in 1..(Len(pages) - 1) :
           min_datetime < MinTime(extract(pages[k].edges))

C2_Witness ==
    /\ pc = "while"
    /\ requests = 2
    /\ earliest_datetime_so_far > MinTime(all_posts)

\* C3: when the latest page is empty or holds only records without a
\* parseable timestamp, get_posts has returned its result set.
C3_ReturnsOnEmptyOrUndatedPage ==
    (/\ Len(pages) > 0
     /\ LastPage.kind = "page"
     /\ ~TryRaises(LastPage)
     /\ \A i \in 1..Len(LastPage.edges) : ~Dated(extract(LastPage.edges)[i]))
    => Returned

\* C4: every dated record of the result get_posts returns is not earlier
\* than min_datetime.
C4_NoRecordBeforeMinDate ==
    Returned =>
        \A i \in 1..Len(all_posts) :
            Dated(all_posts[i]) =>
                strptime(Item(all_posts[i], "created_time").v).v >= min_datetime

\* C5: the sleep happens exactly once before every request but the first,
\* whatever cursor the previous page returned.
C5_SleepBeforeEveryLaterRequest ==
    sleeps = IF requests = 0 THEN 0 ELSE requests - 1

\* C6: extracting a node that misses expected fields or nested structures
\* never raises: every node of every page yields a record with the nine
\* keys, and no page is dropped because of one of its nodes.
C6_ExtractionNeverRaises ==
    \A k \in 1..Len(pages) :
        pages[k].kind = "page" =>
            /\ \A i \in 1..Len(pages[k].edges) :
                   LET r == get_post_from_node(pages[k].edges[i]["node"])
                   IN  r.t = "dict" /\ keys(r.v) = PostKeys
            /\ (k = Len(pages) => stop_cause # "exception")

\* C7: a batch with a record whose timestamp is absent does not abort the
\* run: no exception leaves get_posts, and the record is in the result set.
C7_UndatedRecordDoesNotAbort ==
    (/\ Len(pages) > 0
     /\ LastPage.kind = "page"
     /\ ~TryRaises(LastPage)
     /\ \E i \in 1..Len(LastPage.edges) : ~Dated(extract(LastPage.edges)[i]))
    => /\ pc # "raised"
       /\ all_posts = ExtractAll(pages)

\* C8: with no record the exporter leaves the path as it was; with N > 0
\* records the file holds exactly N+1 rows of nine fields: the keys of the
\* first record, then one row per record in result-set order.
C8_ExportRows ==
    /\ [](pc = "exited" /\ Len(all_posts) > 0 =>
            /\ file.exists
            /\ Len(file.rows) = Len(all_posts) + 1
            /\ file.rows[1] = PostKeys
            /\ \A i \in 1..Len(file.rows) : Len(file.rows[i]) = 9
            /\ \A i \in 1..Len(all_posts) :
                   \A j \in 1..9 :
                       file.rows[i + 1][j] = csv_field(all_posts[i][j][2]))
    /\ [][pc' = "exited" /\ Len(all_posts) = 0 => file' = file]_vars

C8_Witness ==
    /\ pc = "exited"
    /\ Len(all_posts) = 2
    /\ Len(file.rows) = 3
    /\ file.rows[1] = PostKeys

\* C9: when min_datetime is strictly later than the clock reading get_posts
\* starts with, at most one request is issued.
C9_FutureMinDateAtMostOneFetch ==
    min_datetime > now => requests <= 1

C9_Witness ==
    /\ min_datetime > now
    /\ pc = "exited"
    /\ requests = 0

\* C10: every request after the first carries as max_id the end_cursor of
\* the page before it, so the first, cursor-less page is not requested twice.
C10_LaterRequestsCarryCursor ==
    requests >= 2 =>
        /\ last_url.has_max_id
        /\ pages[requests - 1].kind = "page"
        /\ last_url.max_id = pages[requests - 1].end_cursor

====
